---- MODULE Spec2Model ----
(***************************************************************************)
(* Model of sched-analyzer's command line layer, parse_argp.c: the default *)
(* configuration sa_opts, the option keys, and the argp parser callback    *)
(* parse_arg, driven token by token as argp_parse drives it.               *)
(*                                                                         *)
(* C long values are 64 bit wide.  TLC's integers are narrower, so a long  *)
(* is a record [neg, mag] whose magnitude is a little-endian sequence of   *)
(* 16 bit limbs; all arithmetic on it is exact.                            *)
(***************************************************************************)
EXTENDS Integers, Sequences, FiniteSets, TLC

\* ------------------------------------------------------------ bounds
\* Number of command line tokens one run hands to the parser.
MaxArgs == 3
\* Length of the longest --comm argument tried.
MaxCommLen == 18

\* ------------------------------------------------- exact integers
Base == 2 ^ 16

RECURSIVE Norm(_)
\* A magnitude without its leading (most significant) zero limbs.
Norm(s) == IF s = <<>> THEN <<>>
           ELSE IF s[Len(s)] = 0 THEN Norm(SubSeq(s, 1, Len(s) - 1))
           ELSE s

RECURSIVE MulAdd(_, _, _)
\* s * k + c for a magnitude s and small naturals k, c.
MulAdd(s, k, c) ==
    IF s = <<>>
    THEN IF c = 0 THEN <<>> ELSE <<c % Base>> \o MulAdd(<<>>, k, c \div Base)
    ELSE LET t == s[1] * k + c
         IN  <<t % Base>> \o MulAdd(Tail(s), k, t \div Base)

RECURSIVE MagLess(_, _)
\* a < b on normalised magnitudes.
MagLess(a, b) ==
    IF Len(a) # Len(b) THEN Len(a) < Len(b)
    ELSE IF a = <<>> THEN FALSE
    ELSE IF a[Len(a)] # b[Len(b)] THEN a[Len(a)] < b[Len(b)]
    ELSE MagLess(Norm(SubSeq(a, 1, Len(a) - 1)), Norm(SubSeq(b, 1, Len(b) - 1)))

\* A small natural as a magnitude, and as a (non-negative) integer.
Mag(n) == Norm(MulAdd(<<>>, 0, n))
Int64(n) == [neg |-> FALSE, mag |-> Mag(n)]
Zero == [neg |-> FALSE, mag |-> <<>>]
MkInt(neg, mag) == [neg |-> neg /\ Norm(mag) # <<>>, mag |-> Norm(mag)]

\* 2^(16 * limbs) - m, for 0 < m < 2^(16 * limbs): the two's complement.
RECURSIVE AddOne(_)
AddOne(s) == IF s = <<>> THEN <<1>>
             ELSE IF s[1] = Base - 1 THEN <<0>> \o AddOne(Tail(s))
             ELSE <<s[1] + 1>> \o Tail(s)
Pad(s, limbs) == [i \in 1..limbs |-> IF i <= Len(s) THEN s[i] ELSE 0]
TwosComplement(m, limbs) ==
    Norm(SubSeq(AddOne([i \in 1..limbs |-> Base - 1 - Pad(m, limbs)[i]]), 1, limbs))

\* The value of integer x reduced modulo 2^(16 * limbs) and read as a signed
\* two's complement word of that width.
WrapSigned(x, limbs) ==
    LET low == Norm(SubSeq(Pad(x.mag, limbs), 1, limbs))
        u   == IF x.neg /\ low # <<>> THEN TwosComplement(low, limbs) ELSE low
    IN  IF Len(u) = limbs /\ u[limbs] >= Base \div 2
        THEN MkInt(TRUE, TwosComplement(u, limbs))
        ELSE MkInt(FALSE, u)

\* Limbs of a 64 bit long and of a 32 bit int.
LongLimbs == 64 \div 16
IntLimbs == 32 \div 16
\* LONG_MAX = 2^63 - 1 and the magnitude of LONG_MIN, 2^63.
LONG_MAX_MAG == <<Base - 1, Base - 1, Base - 1, (Base \div 2) - 1>>
LONG_MIN_MAG == <<0, 0, 0, Base \div 2>>
FitsLong(x) == IF x.neg THEN ~MagLess(LONG_MIN_MAG, x.mag)
               ELSE ~MagLess(LONG_MAX_MAG, x.mag)

\* --------------------------------------------------------- strtol
Space == {" ", "\t", "\n", "\r", "\f"}
DigitChars == <<"0", "1", "2", "3", "4", "5", "6", "7", "8", "9",
                "a", "b", "c", "d", "e", "f">>
UpperHex == <<"A", "B", "C", "D", "E", "F">>
\* The value of a character as a digit; NoDigit when it is none below base 16.
NoDigit == 16 + 20
DigitVal(c) ==
    IF \E i \in 1..Len(DigitChars) : DigitChars[i] = c
    THEN (CHOOSE i \in 1..Len(DigitChars) : DigitChars[i] = c) - 1
    ELSE IF \E i \in 1..Len(UpperHex) : UpperHex[i] = c
    THEN (CHOOSE i \in 1..Len(UpperHex) : UpperHex[i] = c) + 9
    ELSE NoDigit

CharAt(s, i) == IF i >= 1 /\ i <= Len(s) THEN s[i] ELSE "\\0"

RECURSIVE SkipSpace(_, _)
\* The first position at or after i that holds no white space.
SkipSpace(s, i) == IF CharAt(s, i) \in Space THEN SkipSpace(s, i + 1) ELSE i

RECURSIVE DigitsEnd(_, _, _)
\* The first position at or after i that holds no digit of the base.
DigitsEnd(s, i, base) ==
    IF DigitVal(CharAt(s, i)) < base THEN DigitsEnd(s, i + 1, base) ELSE i

RECURSIVE Accumulate(_, _, _, _, _)
\* The magnitude acc extended by the digits s[i..j-1] of the base.
Accumulate(s, i, j, base, acc) ==
    IF i >= j THEN acc
    ELSE Accumulate(s, i + 1, j, base, Norm(MulAdd(acc, base, DigitVal(s[i]))))

\* strtol(nptr, &end_ptr, 0): the converted value, how many characters were
\* consumed (end_ptr - nptr; 0 when no digits were found) and whether the
\* value was out of range (clamped to LONG_MAX or LONG_MIN, errno = ERANGE).
strtol(nptr) ==
    LET p     == SkipSpace(nptr, 1)
        neg   == CharAt(nptr, p) = "-"
        q     == IF CharAt(nptr, p) \in {"-", "+"} THEN p + 1 ELSE p
        hex   == /\ CharAt(nptr, q) = "0"
                 /\ CharAt(nptr, q + 1) \in {"x", "X"}
                 /\ DigitVal(CharAt(nptr, q + 2)) < 16
        base  == IF hex THEN 16 ELSE IF CharAt(nptr, q) = "0" THEN 8 ELSE 10
        start == IF hex THEN q + 2 ELSE q
        stop  == DigitsEnd(nptr, start, base)
        mag   == Accumulate(nptr, start, stop, base, <<>>)
        val   == MkInt(neg, mag)
    IN  IF stop = start THEN [val |-> Zero, end |-> 0, range |-> FALSE]
        ELSE IF FitsLong(val) THEN [val |-> val, end |-> stop - 1, range |-> FALSE]
        ELSE [val   |-> MkInt(neg, IF neg THEN LONG_MIN_MAG ELSE LONG_MAX_MAG),
              end   |-> stop - 1,
              range |-> TRUE]

\* v * 1024 as a mathematical integer.
Times1024(v) == MkInt(v.neg, MulAdd(v.mag, 1024, 0))

\* ------------------------------------------------ program constants
\* errno.h, sysexits.h, argp.h and signal.h values the code depends on.
ERANGE == 34
ARGP_ERR_UNKNOWN == 7
EX_USAGE == 64
ABORTED == 128 + 6
ARGP_KEY_ARG == 0
ARGP_KEY_END == 16777217
ARGP_KEY_NO_ARGS == 16777218
ARGP_KEY_INIT == 16777219
\* Size of sa_opts.comm, from parse_argp.h.
TASK_COMM_LEN == 16

\* enum sa_opts_flags
OPT_DUMMY_START == 128
OPT_SYSTEM == OPT_DUMMY_START + 1
OPT_APP == OPT_DUMMY_START + 2
OPT_OUTPUT == OPT_DUMMY_START + 3
OPT_OUTPUT_PATH == OPT_DUMMY_START + 4
OPT_MAX_SIZE == OPT_DUMMY_START + 5
OPT_LOAD_AVG == OPT_DUMMY_START + 6
OPT_RUNNABLE_AVG == OPT_DUMMY_START + 7
OPT_UTIL_AVG == OPT_DUMMY_START + 8
OPT_LOAD_AVG_CPU == OPT_DUMMY_START + 9
OPT_RUNNABLE_AVG_CPU == OPT_DUMMY_START + 10
OPT_UTIL_AVG_CPU == OPT_DUMMY_START + 11
OPT_LOAD_AVG_TASK == OPT_DUMMY_START + 12
OPT_RUNNABLE_AVG_TASK == OPT_DUMMY_START + 13
OPT_UTIL_AVG_TASK == OPT_DUMMY_START + 14
OPT_UTIL_AVG_RT == OPT_DUMMY_START + 15
OPT_UTIL_AVG_DL == OPT_DUMMY_START + 16
OPT_UTIL_AVG_IRQ == OPT_DUMMY_START + 17
OPT_UTIL_AVG_THERMAL == OPT_DUMMY_START + 18
OPT_UTIL_EST == OPT_DUMMY_START + 19
OPT_UTIL_EST_CPU == OPT_DUMMY_START + 20
OPT_UTIL_EST_TASK == OPT_DUMMY_START + 21
OPT_CPU_NR_RUNNING == OPT_DUMMY_START + 22
OPT_LOAD_BALANCE == OPT_DUMMY_START + 23
OPT_FILTER_PID == OPT_DUMMY_START + 24
OPT_FILTER_COMM == OPT_DUMMY_START + 25

\* The options[] table: the keys argp hands to the parser, by group.
ModeKeys == {OPT_SYSTEM, OPT_APP}
ControlKeys == {OPT_OUTPUT, OPT_OUTPUT_PATH}
EventKeys == {OPT_LOAD_AVG, OPT_RUNNABLE_AVG, OPT_UTIL_AVG, OPT_LOAD_AVG_CPU,
              OPT_RUNNABLE_AVG_CPU, OPT_UTIL_AVG_CPU, OPT_LOAD_AVG_TASK,
              OPT_RUNNABLE_AVG_TASK, OPT_UTIL_AVG_TASK, OPT_UTIL_AVG_RT,
              OPT_UTIL_AVG_DL, OPT_UTIL_AVG_IRQ, OPT_UTIL_AVG_THERMAL,
              OPT_UTIL_EST, OPT_UTIL_EST_CPU, OPT_UTIL_EST_TASK,
              OPT_CPU_NR_RUNNING, OPT_LOAD_BALANCE}
options == ModeKeys \cup ControlKeys \cup EventKeys
               \cup {OPT_MAX_SIZE, OPT_FILTER_PID, OPT_FILTER_COMM}

\* Strings are sequences of one-character strings.  The null pointer is a
\* sequence that is no string; NUL is the terminating character.
NULL == <<"<NULL>">>
NUL == "\\0"
\* "sched-analyzer.perfetto-trace"
DefaultOutput ==
    <<"s", "c", "h", "e", "d", "-", "a", "n", "a", "l", "y", "z", "e", "r", ".",
      "p", "e", "r", "f", "e", "t", "t", "o", "-", "t", "r", "a", "c", "e">>

\* ------------------------------------------------------- sa_opts
\* struct sa_opts with every member zero: false, 0, the null pointer, an
\* all-NUL comm.
ZeroedOpts ==
    [system |-> FALSE, app |-> FALSE,
     output |-> NULL, output_path |-> NULL,
     max_size |-> Zero,
     load_avg_cpu |-> FALSE, load_avg_task |-> FALSE,
     runnable_avg_cpu |-> FALSE, runnable_avg_task |-> FALSE,
     util_avg_cpu |-> FALSE, util_avg_task |-> FALSE, util_avg_rt |-> FALSE,
     util_avg_dl |-> FALSE, util_avg_irq |-> FALSE, util_avg_thermal |-> FALSE,
     util_est_cpu |-> FALSE, util_est_task |-> FALSE,
     cpu_nr_running |-> FALSE, cpu_freq |-> FALSE, cpu_idle |-> FALSE,
     softirq |-> FALSE, sched_switch |-> FALSE, load_balance |-> FALSE,
     pid |-> Zero,
     comm |-> [i \in 1..TASK_COMM_LEN |-> NUL]]

\* Variant: the size limit initialised as 250 KiB, a factor of 1024 short.
sa_opts_init_KiB ==
    [ZeroedOpts EXCEPT !.system = TRUE, !.output = DefaultOutput,
                       !.max_size = Int64(250 * 1024)]
\* struct sa_opts sa_opts = { ... }: the designated initialisers; members
\* without one stay zero.
sa_opts_init ==
    [ZeroedOpts EXCEPT
        !.system = TRUE, !.app = FALSE,
        !.output = DefaultOutput,
        !.output_path = NULL,
        !.max_size = Int64(250 * 1024 * 1024),
        !.util_avg_cpu = FALSE, !.util_avg_task = FALSE, !.util_avg_rt = FALSE,
        !.util_avg_dl = FALSE, !.util_avg_irq = FALSE, !.util_avg_thermal = FALSE,
        !.util_est_cpu = FALSE, !.util_est_task = FALSE,
        !.cpu_nr_running = FALSE, !.cpu_freq = FALSE, !.cpu_idle = FALSE,
        !.softirq = FALSE, !.sched_switch = FALSE, !.load_balance = FALSE,
        !.pid = Zero,
        !.comm = [i \in 1..TASK_COMM_LEN |-> NUL]]

\* ------------------------------------------------ stderr and results
\* One write to stderr: the literal text, the errno perror() appends the
\* message of (0: none), and the values a format interpolates.
Write(text, errnum, args) == [text |-> text, errnum |-> errnum, args |-> args]
fprintf(text) == Write(text, 0, <<>>)
perror(text, errnum) == Write(text, errnum, <<>>)
UsageText == "Usage: sched-analyzer [OPTION...]"

\* What one call of parse_arg leaves behind: the configuration, the returned
\* error_t (the exit status when the process ended inside the call), whether
\* the process ended inside the call, and what was written to stderr.
Returned(o, ret, err) == [opts |-> o, ret |-> ret, exited |-> FALSE, err |-> err]
Exited(o, status, err) == [opts |-> o, ret |-> status, exited |-> TRUE, err |-> err]
\* argp_usage(state): prints the usage message and exits with
\* argp_err_exit_status (argp_parse is called without ARGP_NO_EXIT), so the
\* return -EINVAL that follows it in the numeric cases is not reached.
argp_usage(o, err) == Exited(o, EX_USAGE, Append(err, fprintf(UsageText)))

\* ------------------------------------------- parse_arg, case by case
OptSystem(o) == [o EXCEPT !.system = TRUE, !.app = FALSE]
\* Variant: --app that forgets to clear system.
OptApp_NoClear(o) == [o EXCEPT !.app = TRUE]
OptApp(o) == [o EXCEPT !.system = FALSE, !.app = TRUE]
OptOutput(o, arg) == [o EXCEPT !.output = arg]
OptOutputPath(o, arg) == [o EXCEPT !.output_path = arg]

\* errno after errno = 0; strtol(...): ERANGE when the value was out of range.
\* When nothing was converted the C library argp comes with leaves errno alone.
ErrnoAfter(r) == IF r.range THEN ERANGE ELSE 0

\* strtol(arg, &end_ptr, 0) * 1024 in long arithmetic.  A product that does
\* not fit is signed overflow: the word wraps, or an overflow-trapping build
\* aborts.
LongTimes1024(v) ==
    IF FitsLong(Times1024(v)) THEN {[trap |-> FALSE, val |-> Times1024(v)]}
    ELSE {[trap |-> FALSE, val |-> WrapSigned(Times1024(v), LongLimbs)],
          [trap |-> TRUE, val |-> Zero]}

\* Variant: --max_size without the end_ptr == arg test.
OptMaxSize_NoDigitCheck(o, arg) ==
    LET r     == strtol(arg)
        errno == ErrnoAfter(r)
    IN  { IF p.trap THEN Exited(o, ABORTED, <<>>)
          ELSE LET o1 == [o EXCEPT !.max_size = p.val]
               IN  IF errno # 0
                   THEN Returned(o1, errno,
                                 <<perror("Unsupported max_size value\n", errno)>>)
                   ELSE Returned(o1, 0, <<>>)
          : p \in LongTimes1024(r.val) }
\* case OPT_MAX_SIZE
OptMaxSize(o, arg) ==
    LET r     == strtol(arg)
        errno == ErrnoAfter(r)
    IN  { IF p.trap THEN Exited(o, ABORTED, <<>>)
          ELSE LET o1 == [o EXCEPT !.max_size = p.val]
               IN  IF errno # 0
                   THEN Returned(o1, errno,
                                 <<perror("Unsupported max_size value\n", errno)>>)
                   ELSE IF r.end = 0
                   THEN argp_usage(o1, <<fprintf("max_size: no digits were found\n")>>)
                   ELSE Returned(o1, 0, <<>>)
          : p \in LongTimes1024(r.val) }

\* case OPT_FILTER_PID: the long is converted to the pid_t member (32 bit).
OptFilterPid(o, arg) ==
    LET r     == strtol(arg)
        errno == ErrnoAfter(r)
        o1    == [o EXCEPT !.pid = WrapSigned(r.val, IntLimbs)]
    IN  { IF errno # 0
          THEN Returned(o1, errno, <<perror("Unsupported pid value\n", errno)>>)
          ELSE IF r.end = 0
          THEN argp_usage(o1, <<fprintf("pid: no digits were found\n")>>)
          ELSE Returned(o1, 0, <<>>) }

OptLoadAvg(o) == [o EXCEPT !.load_avg_cpu = TRUE, !.load_avg_task = TRUE]
\* Variant: --runnable_avg expanding to the runnable pair.
OptRunnableAvg_Symmetric(o) ==
    [o EXCEPT !.runnable_avg_cpu = TRUE, !.runnable_avg_task = TRUE]
OptRunnableAvg(o) == [o EXCEPT !.load_avg_cpu = TRUE, !.runnable_avg_task = TRUE]
\* Variant: --util_avg that leaves out the thermal member.
OptUtilAvg_NoThermal(o) ==
    [o EXCEPT !.util_avg_cpu = TRUE, !.util_avg_task = TRUE, !.util_avg_rt = TRUE,
              !.util_avg_dl = TRUE, !.util_avg_irq = TRUE]
OptUtilAvg(o) == [o EXCEPT !.util_avg_cpu = TRUE, !.util_avg_task = TRUE,
                           !.util_avg_rt = TRUE, !.util_avg_dl = TRUE,
                           !.util_avg_irq = TRUE, !.util_avg_thermal = TRUE]
OptLoadAvgCpu(o) == [o EXCEPT !.load_avg_cpu = TRUE]
OptRunnableAvgCpu(o) == [o EXCEPT !.runnable_avg_cpu = TRUE]
OptUtilAvgCpu(o) == [o EXCEPT !.util_avg_cpu = TRUE]
OptLoadAvgTask(o) == [o EXCEPT !.load_avg_task = TRUE]
OptRunnableAvgTask(o) == [o EXCEPT !.runnable_avg_task = TRUE]
OptUtilAvgTask(o) == [o EXCEPT !.util_avg_task = TRUE]
OptUtilAvgRt(o) == [o EXCEPT !.util_avg_rt = TRUE]
OptUtilAvgDl(o) == [o EXCEPT !.util_avg_dl = TRUE]
OptUtilAvgIrq(o) == [o EXCEPT !.util_avg_irq = TRUE]
OptUtilAvgThermal(o) == [o EXCEPT !.util_avg_thermal = TRUE]
OptUtilEst(o) == [o EXCEPT !.util_est_cpu = TRUE, !.util_est_task = TRUE]
\* Variant: --util_est_cpu that switches the task estimate off.
OptUtilEstCpu_Exclusive(o) == [o EXCEPT !.util_est_cpu = TRUE, !.util_est_task = FALSE]
OptUtilEstCpu(o) == [o EXCEPT !.util_est_cpu = TRUE]
OptUtilEstTask(o) == [o EXCEPT !.util_est_task = TRUE]
OptCpuNrRunning(o) == [o EXCEPT !.cpu_nr_running = TRUE]
OptLoadBalance(o) == [o EXCEPT !.load_balance = TRUE]

\* strncpy(dst, src, n): the first n characters of src, NUL-padded to n when
\* src is shorter; dst beyond n is left alone.
strncpy(dst, src, n) ==
    [i \in 1..Len(dst) |-> IF i > n THEN dst[i]
                           ELSE IF i <= Len(src) THEN src[i] ELSE NUL]
\* Variant: --comm copying the characters without strncpy's NUL padding.
OptFilterComm_NoPad(o, arg) ==
    [o EXCEPT !.comm = [i \in 1..TASK_COMM_LEN |->
                           IF i = TASK_COMM_LEN THEN NUL
                           ELSE IF i <= Len(arg) THEN arg[i]
                           ELSE o.comm[i]]]
\* case OPT_FILTER_COMM
OptFilterComm(o, arg) ==
    [o EXCEPT !.comm = [strncpy(o.comm, arg, TASK_COMM_LEN - 1)
                            EXCEPT ![TASK_COMM_LEN] = NUL]]

\* case ARGP_KEY_ARG: argp_usage() does not return.
\* Variant: a positional argument accepted without argp_usage().
KeyArg_Accept(o) == Returned(o, 0, <<>>)
KeyArg(o) == argp_usage(o, <<>>)

\* static error_t parse_arg(int key, char *arg, struct argp_state *state)
parse_arg(o, key, arg) ==
    CASE key = OPT_SYSTEM -> {Returned(OptSystem(o), 0, <<>>)}
      [] key = OPT_APP -> {Returned(OptApp(o), 0, <<>>)}
      [] key = OPT_OUTPUT -> {Returned(OptOutput(o, arg), 0, <<>>)}
      [] key = OPT_OUTPUT_PATH -> {Returned(OptOutputPath(o, arg), 0, <<>>)}
      [] key = OPT_MAX_SIZE -> OptMaxSize(o, arg)
      [] key = OPT_LOAD_AVG -> {Returned(OptLoadAvg(o), 0, <<>>)}
      [] key = OPT_RUNNABLE_AVG -> {Returned(OptRunnableAvg(o), 0, <<>>)}
      [] key = OPT_UTIL_AVG -> {Returned(OptUtilAvg(o), 0, <<>>)}
      [] key = OPT_LOAD_AVG_CPU -> {Returned(OptLoadAvgCpu(o), 0, <<>>)}
      [] key = OPT_RUNNABLE_AVG_CPU -> {Returned(OptRunnableAvgCpu(o), 0, <<>>)}
      [] key = OPT_UTIL_AVG_CPU -> {Returned(OptUtilAvgCpu(o), 0, <<>>)}
      [] key = OPT_LOAD_AVG_TASK -> {Returned(OptLoadAvgTask(o), 0, <<>>)}
      [] key = OPT_RUNNABLE_AVG_TASK -> {Returned(OptRunnableAvgTask(o), 0, <<>>)}
      [] key = OPT_UTIL_AVG_TASK -> {Returned(OptUtilAvgTask(o), 0, <<>>)}
      [] key = OPT_UTIL_AVG_RT -> {Returned(OptUtilAvgRt(o), 0, <<>>)}
      [] key = OPT_UTIL_AVG_DL -> {Returned(OptUtilAvgDl(o), 0, <<>>)}
      [] key = OPT_UTIL_AVG_IRQ -> {Returned(OptUtilAvgIrq(o), 0, <<>>)}
      [] key = OPT_UTIL_AVG_THERMAL -> {Returned(OptUtilAvgThermal(o), 0, <<>>)}
      [] key = OPT_UTIL_EST -> {Returned(OptUtilEst(o), 0, <<>>)}
      [] key = OPT_UTIL_EST_CPU -> {Returned(OptUtilEstCpu(o), 0, <<>>)}
      [] key = OPT_UTIL_EST_TASK -> {Returned(OptUtilEstTask(o), 0, <<>>)}
      [] key = OPT_CPU_NR_RUNNING -> {Returned(OptCpuNrRunning(o), 0, <<>>)}
      [] key = OPT_LOAD_BALANCE -> {Returned(OptLoadBalance(o), 0, <<>>)}
      [] key = OPT_FILTER_PID -> OptFilterPid(o, arg)
      [] key = OPT_FILTER_COMM -> {Returned(OptFilterComm(o, arg), 0, <<>>)}
      [] key = ARGP_KEY_ARG -> {KeyArg(o)}
      [] key = ARGP_KEY_END -> {Returned(o, 0, <<>>)}
      [] OTHER -> {Returned(o, ARGP_ERR_UNKNOWN, <<>>)}

\* ------------------------------------------------ command line inputs
\* Arguments tried for --max_size and --pid.
NumArgs ==
    { <<"a", "b", "c">>, <<"x", "y", "z">>, <<>>,
      <<"5">>, <<"1", "0", "2", "4">>, <<"-", "1">>,
      <<"0", "x", "1", "0">>, <<"1", "2", "a", "b", "c">>,
      \* 2^32 + 1
      <<"4", "2", "9", "4", "9", "6", "7", "2", "9", "7">>,
      \* 2^53: times 1024 it is 2^63
      <<"9", "0", "0", "7", "1", "9", "9", "2", "5", "4", "7", "4", "0", "9", "9", "2">>,
      \* LONG_MAX + 1
      <<"9", "2", "2", "3", "3", "7", "2", "0", "3", "6", "8", "5", "4", "7", "7",
        "5", "8", "0", "8">> }
\* Arguments tried for --comm: two alphabets, lengths around the buffer size.
CommLens == {0, 2, TASK_COMM_LEN - 1, TASK_COMM_LEN, MaxCommLen}
CommText(c, n) == [i \in 1..n |-> IF i % 3 = 0 THEN "_" ELSE c]
CommArgs == {CommText(c, n) : c \in {"a", "b"}, n \in CommLens}
OutputArgs == {<<"o", "u", "t">>, <<"/", "t", "m", "p">>}

\* ------------------------------------------------------------ state
VARIABLES
    sa_opts,   \* the global configuration
    pc,        \* "Parsing", "Done" or "Failed"
    nargs,     \* command line tokens consumed so far
    tok,       \* what the last token was: "option", "arg", "unknown", "end"
    key,       \* key of the last parse_arg call
    arg,       \* arg of the last parse_arg call
    ret,       \* result of the last call, or the exit status of the process
    stderr,    \* what the last call wrote to stderr
    seen       \* keys of the options parse_arg has been called with

vars == <<sa_opts, pc, nargs, tok, key, arg, ret, stderr, seen>>

\* argp_parse starts by calling the parser with ARGP_KEY_INIT, which parse_arg
\* does not handle.
Init ==
    /\ sa_opts \in {oc.opts : oc \in parse_arg(sa_opts_init, ARGP_KEY_INIT, NULL)}
    /\ pc = "Parsing"
    /\ nargs = 0
    /\ tok = "none"
    /\ key = ARGP_KEY_INIT
    /\ arg = NULL
    /\ ret = 0
    /\ stderr = <<>>
    /\ seen = {}

\* argp hands one command line token to parse_arg: a non-zero result, or the
\* process exiting inside the call, ends the parse.
Deliver(kind, k, a) ==
    /\ nargs < MaxArgs
    /\ \E oc \in parse_arg(sa_opts, k, a) :
          /\ sa_opts' = oc.opts
          /\ ret' = oc.ret
          /\ stderr' = oc.err
          /\ pc' = IF oc.exited \/ oc.ret # 0 THEN "Failed" ELSE "Parsing"
    /\ nargs' = nargs + 1
    /\ tok' = kind
    /\ key' = k
    /\ arg' = a
    /\ seen' = IF kind = "option" THEN seen \cup {k} ELSE seen

ParseMode ==
    /\ pc = "Parsing"
    /\ \E k \in ModeKeys : Deliver("option", k, NULL)
ParseControl ==
    /\ pc = "Parsing"
    /\ \E k \in ControlKeys, a \in OutputArgs : Deliver("option", k, a)
ParseMaxSize ==
    /\ pc = "Parsing"
    /\ \E a \in NumArgs : Deliver("option", OPT_MAX_SIZE, a)
ParseEvent ==
    /\ pc = "Parsing"
    /\ \E k \in EventKeys : Deliver("option", k, NULL)
ParsePid ==
    /\ pc = "Parsing"
    /\ \E a \in NumArgs : Deliver("option", OPT_FILTER_PID, a)
ParseComm ==
    /\ pc = "Parsing"
    /\ \E a \in CommArgs : Deliver("option", OPT_FILTER_COMM, a)
\* A token that is no option is handed over as ARGP_KEY_ARG.
ParsePositional ==
    /\ pc = "Parsing"
    /\ Deliver("arg", ARGP_KEY_ARG, <<"f", "i", "l", "e">>)

\* An option that is not in options[] never reaches parse_arg: argp reports
\* it and exits with argp_err_exit_status.
UnknownOption ==
    /\ pc = "Parsing"
    /\ nargs < MaxArgs
    /\ pc' = "Failed"
    /\ ret' = EX_USAGE
    /\ stderr' = <<Write("unrecognized option", 0, <<<<"-", "-", "b", "o", "g", "u", "s">>>>)>>
    /\ tok' = "unknown"
    /\ nargs' = nargs + 1
    /\ UNCHANGED <<sa_opts, key, arg, seen>>

\* The command line is exhausted: with no positional argument seen the parser
\* is called with ARGP_KEY_NO_ARGS, whose ARGP_ERR_UNKNOWN argp ignores, and
\* then with ARGP_KEY_END.
EndOfArgs ==
    /\ pc = "Parsing"
    /\ \E oc1 \in parse_arg(sa_opts, ARGP_KEY_NO_ARGS, NULL) :
       \E oc2 \in parse_arg(oc1.opts, ARGP_KEY_END, NULL) :
          /\ sa_opts' = oc2.opts
          /\ ret' = oc2.ret
          /\ stderr' = oc1.err \o oc2.err
          /\ pc' = IF oc2.exited \/ oc2.ret # 0 \/ oc1.exited
                      \/ oc1.ret \notin {0, ARGP_ERR_UNKNOWN}
                   THEN "Failed" ELSE "Done"
    /\ tok' = "end"
    /\ key' = ARGP_KEY_END
    /\ arg' = NULL
    /\ UNCHANGED <<nargs, seen>>

Next ==
    \/ ParseMode
    \/ ParseControl
    \/ ParseMaxSize
    \/ ParseEvent
    \/ ParsePid
    \/ ParseComm
    \/ ParsePositional
    \/ UnknownOption
    \/ EndOfArgs

Spec == Init /\ [][Next]_vars

\* =================================================================
\* Properties
\* =================================================================
Range(f) == {f[i] : i \in DOMAIN f}
\* The C string held in a character buffer: what precedes the first NUL.
CStr(buf) ==
    IF \E i \in 1..Len(buf) : buf[i] = NUL
    THEN SubSeq(buf, 1, (CHOOSE i \in 1..Len(buf) :
                            buf[i] = NUL /\ \A j \in 1..(i - 1) : buf[j] # NUL) - 1)
    ELSE buf
\* The last step handed option k to parse_arg.
Handled(k) == tok = "option" /\ key = k
\* This step hands option k to parse_arg.
Handles(k) == nargs' = nargs + 1 /\ tok' = "option" /\ key' = k
\* The members of sa_opts outside the set S are the same before and after.
FrameExcept(S) == \A f \in (DOMAIN sa_opts) \ S : sa_opts'[f] = sa_opts[f]

\* C1: in every reachable state, whatever options were processed and in
\* whatever order, exactly one of sa_opts.system and sa_opts.app is true.
C1_ExactlyOneMode == (sa_opts.system \/ sa_opts.app) /\ ~(sa_opts.system /\ sa_opts.app)
\* --app processed after --system: app mode is on, system mode is off.
C1_Witness ==
    /\ Handled(OPT_APP)
    /\ {OPT_SYSTEM, OPT_APP} \subseteq seen
    /\ sa_opts.app

\* C2: an empty command line ends in Done with exactly the documented defaults:
\* system mode, the default file name, no output path, 250 MiB, every event
\* toggle off, pid 0 and an empty comm.
C2_EmptyGivesDefaults ==
    (nargs = 0 /\ tok = "end") =>
        /\ pc = "Done"
        /\ ret = 0
        /\ sa_opts.system = TRUE /\ sa_opts.app = FALSE
        /\ sa_opts.output = DefaultOutput
        /\ sa_opts.output_path = NULL
        /\ sa_opts.max_size = [neg |-> FALSE, mag |-> <<0, 4000>>]
        /\ sa_opts.max_size = Times1024(Times1024(Int64(250)))
        /\ \A f \in (DOMAIN sa_opts) \ {"system", "app", "output", "output_path",
                                        "max_size", "pid", "comm"} :
              sa_opts[f] = FALSE
        /\ sa_opts.pid = Zero
        /\ CStr(sa_opts.comm) = <<>>
C2_Witness == nargs = 0 /\ tok = "end" /\ pc = "Done"

UtilAvgFields == {"util_avg_cpu", "util_avg_task", "util_avg_rt", "util_avg_dl",
                  "util_avg_irq", "util_avg_thermal"}
\* C3: a step that processes --util_avg leaves all six util_avg_* members true
\* and changes no other member of the configuration.
C3_UtilAvgFrame ==
    [][Handles(OPT_UTIL_AVG) =>
          /\ \A f \in UtilAvgFields : sa_opts'[f] = TRUE
          /\ FrameExcept(UtilAvgFields)
          /\ pc' = "Parsing"]_vars
\* --util_avg processed after --app and --util_avg_rt, with other members
\* changed from their defaults.
C3_Witness ==
    /\ Handled(OPT_UTIL_AVG)
    /\ {OPT_APP, OPT_UTIL_AVG_RT} \subseteq seen
    /\ sa_opts.app
    /\ \A f \in UtilAvgFields : sa_opts[f]

\* C4 (as claimed): whenever --max_size is accepted, its number N is not
\* negative and max_size is exactly N * 1024.
C4_AcceptedIsExactProduct ==
    (Handled(OPT_MAX_SIZE) /\ pc = "Parsing") =>
        /\ ~strtol(arg).val.neg
        /\ sa_opts.max_size = Times1024(strtol(arg).val)

\* The arguments of the claim's examples, in which strtol finds no digit.
NoDigitArgs == {<<"a", "b", "c">>, <<"x", "y", "z">>}
NumericKeys == {OPT_MAX_SIZE, OPT_FILTER_PID}
\* The texts parse_arg writes for a numeric option: when no digits were found,
\* and (through perror) when strtol set errno.  Both name the option.
NoDigitsMessage(k) == IF k = OPT_MAX_SIZE THEN "max_size: no digits were found\n"
                      ELSE "pid: no digits were found\n"
RangeMessage(k) == IF k = OPT_MAX_SIZE THEN "Unsupported max_size value\n"
                   ELSE "Unsupported pid value\n"
NoDigitCase == tok = "option" /\ key \in NumericKeys /\ arg \in NoDigitArgs
C6_RejectedLeavesNoTrace ==
    [][(\E k \in NumericKeys : Handles(k)) /\ pc' = "Failed" =>
          /\ sa_opts'.max_size = sa_opts.max_size
          /\ sa_opts'.pid = sa_opts.pid]_vars

\* C7: a step that consumes an unrecognised option or a positional token ends
\* in Failed with a non-success result and an unchanged configuration; from
\* Failed no step changes the configuration or leaves Failed, so Done is never
\* reached.
C7_FirstErrorIsFinal ==
    [][/\ (nargs' = nargs + 1 /\ tok' \in {"unknown", "arg"}) =>
              (pc' = "Failed" /\ ret' # 0 /\ sa_opts' = sa_opts)
       /\ pc = "Failed" => (pc' = "Failed" /\ sa_opts' = sa_opts)]_vars
\* A positional token after --app: the parse has failed, app mode still set.
C7_Witness ==
    /\ tok = "arg"
    /\ pc = "Failed"
    /\ OPT_APP \in seen
    /\ sa_opts.app

Min(a, b) == IF a < b THEN a ELSE b
\* C8: the comm buffer always ends in NUL; after --comm with any argument the
\* parse goes on without a failure and the stored string is the argument cut
\* to TASK_COMM_LEN - 1 characters, with nothing of an earlier argument
\* behind it.
C8_CommTruncated ==
    /\ Len(sa_opts.comm) = TASK_COMM_LEN
    /\ sa_opts.comm[TASK_COMM_LEN] = NUL
    /\ Handled(OPT_FILTER_COMM) =>
          /\ pc = "Parsing" /\ ret = 0
          /\ CStr(sa_opts.comm) = SubSeq(arg, 1, Min(Len(arg), TASK_COMM_LEN - 1))
          /\ \A i \in 1..TASK_COMM_LEN :
                i > Len(arg) => sa_opts.comm[i] = NUL
\* A second --comm, longer than the buffer, has been processed.
C8_Witness ==
    /\ Handled(OPT_FILTER_COMM)
    /\ nargs = 2 /\ seen = {OPT_FILTER_COMM}
    /\ Len(arg) > TASK_COMM_LEN - 1
    /\ Len(CStr(sa_opts.comm)) = TASK_COMM_LEN - 1

EventFields == (DOMAIN sa_opts_init) \ {"system", "app", "output", "output_path",
                                       "max_size", "pid", "comm"}
\* The event toggles each option stands for, from the options[] catalogue.
Expansion(k) ==
    CASE k = OPT_LOAD_AVG -> {"load_avg_cpu", "load_avg_task"}
      [] k = OPT_RUNNABLE_AVG -> {"load_avg_cpu", "runnable_avg_task"}
      [] k = OPT_UTIL_AVG -> UtilAvgFields
      [] k = OPT_LOAD_AVG_CPU -> {"load_avg_cpu"}
      [] k = OPT_RUNNABLE_AVG_CPU -> {"runnable_avg_cpu"}
      [] k = OPT_UTIL_AVG_CPU -> {"util_avg_cpu"}
      [] k = OPT_LOAD_AVG_TASK -> {"load_avg_task"}
      [] k = OPT_RUNNABLE_AVG_TASK -> {"runnable_avg_task"}
      [] k = OPT_UTIL_AVG_TASK -> {"util_avg_task"}
      [] k = OPT_UTIL_AVG_RT -> {"util_avg_rt"}
      [] k = OPT_UTIL_AVG_DL -> {"util_avg_dl"}
      [] k = OPT_UTIL_AVG_IRQ -> {"util_avg_irq"}
      [] k = OPT_UTIL_AVG_THERMAL -> {"util_avg_thermal"}
      [] k = OPT_UTIL_EST -> {"util_est_cpu", "util_est_task"}
      [] k = OPT_UTIL_EST_CPU -> {"util_est_cpu"}
      [] k = OPT_UTIL_EST_TASK -> {"util_est_task"}
      [] k = OPT_CPU_NR_RUNNING -> {"cpu_nr_running"}
      [] k = OPT_LOAD_BALANCE -> {"load_balance"}
      [] OTHER -> {}
\* C10: no step turns an event toggle off, and the toggles that are on are
\* exactly the union of the expansions of the options processed so far: a
\* function of which options were given, not of their order or number.
C10_TogglesAreUnion ==
    /\ [][\A f \in EventFields : sa_opts[f] => sa_opts'[f]]_vars
    /\ []({f \in EventFields : sa_opts[f]} = UNION {Expansion(k) : k \in seen})
\* Three event options processed, an umbrella after one of its own members.
C10_Witness ==
    /\ nargs = 3
    /\ Handled(OPT_UTIL_EST)
    /\ seen = {OPT_UTIL_EST_TASK, OPT_RUNNABLE_AVG, OPT_UTIL_EST}
    /\ {f \in EventFields : sa_opts[f]} =
          {"util_est_cpu", "util_est_task", "load_avg_cpu", "runnable_avg_task"}

====
